---- MODULE Spec2Model ----
(***************************************************************************)
(* A model of the tabular Q-learning core of the rl crate:                 *)
(*   src/src/decay.rs        the Decay variants and their validation       *)
(*   src/src/algo/q_table.rs QTableAgent: new, act, learn, go              *)
(*                                                                         *)
(* Every number the code computes with is an f32.  The model keeps the     *)
(* finite, normal binary32 values exactly: a value is <<m, e>> and stands  *)
(* for m * 2^e, with m = 0 (and e = 0) or 2^23 <= |m| < 2^24.  Addition,   *)
(* subtraction, multiplication and division round to nearest, ties to      *)
(* even, as IEEE 754 binary32 does.  NaN, the infinities, subnormals and   *)
(* the sign of zero are outside the model: the inputs are drawn from sets  *)
(* whose results stay finite and normal.                                   *)
(***************************************************************************)
EXTENDS Integers, Sequences, FiniteSets, TLC

(***************************************************************************)
(* binary32 arithmetic                                                     *)
(***************************************************************************)

\* f32 has a 24 bit significand (23 stored bits and the hidden one).
MantBits == 24

RECURSIVE Pow2(_)
Pow2(n) == IF n = 0 THEN 1 ELSE 2 * Pow2(n - 1)

RECURSIVE BitLen(_)
BitLen(n) == IF n = 0 THEN 0 ELSE 1 + BitLen(n \div 2)

Abs(x) == IF x < 0 THEN 0 - x ELSE x
Sgn(x) == IF x < 0 THEN 0 - 1 ELSE IF x = 0 THEN 0 ELSE 1

Zero == <<0, 0>>
One == <<Pow2(MantBits - 1), 1 - MantBits>>
FNeg(a) == <<0 - a[1], a[2]>>

\* The binary32 nearest to v * 2^e (ties to even), for an integer v.
RoundNorm(v, e) ==
    LET mag == Abs(v)
        len == BitLen(mag)
    IN  IF v = 0 THEN Zero
        ELSE IF len <= MantBits
        THEN <<Sgn(v) * mag * Pow2(MantBits - len), e - (MantBits - len)>>
        ELSE LET k == len - MantBits
                 q == mag \div Pow2(k)
                 rem == mag % Pow2(k)
                 half == Pow2(k - 1)
                 up == IF rem > half \/ (rem = half /\ q % 2 = 1) THEN 1 ELSE 0
             IN  IF q + up = Pow2(MantBits)
                 THEN <<Sgn(v) * Pow2(MantBits - 1), e + k + 1>>
                 ELSE <<Sgn(v) * (q + up), e + k>>

\* a + b, with a the operand of the larger exponent: three extra bits
\* (guard, round, sticky) below a's last place decide the rounding.
AddOrdered(a, b) ==
    LET d == a[2] - b[2]
        mb == Abs(b[1])
        bx == IF d <= 3 THEN mb * Pow2(3 - d)
              ELSE 2 * (mb \div Pow2(d - 2))
                   + (IF mb % Pow2(d - 2) # 0 THEN 1 ELSE 0)
    IN  IF d > MantBits + 2 THEN a
        ELSE RoundNorm(a[1] * 8 + Sgn(b[1]) * bx, a[2] - 3)

FAdd(a, b) ==
    IF a = Zero THEN b
    ELSE IF b = Zero THEN a
    ELSE IF a[2] >= b[2] THEN AddOrdered(a, b) ELSE AddOrdered(b, a)

FSub(a, b) == FAdd(a, FNeg(b))

\* a * b: the 48 bit product of the significands, in two 24 bit halves.
FMul(a, b) ==
    LET h == Pow2(MantBits \div 2)
        w == Pow2(MantBits)
        ma == Abs(a[1])
        mb == Abs(b[1])
        a1 == ma \div h
        a0 == ma % h
        b1 == mb \div h
        b0 == mb % h
        mid == a1 * b0 + a0 * b1
        lowsum == a0 * b0 + (mid % h) * h
        lo == lowsum % w
        hi == a1 * b1 + mid \div h + lowsum \div w
        s == Sgn(a[1]) * Sgn(b[1])
        big == hi >= Pow2(MantBits - 1)
        q == IF big THEN hi ELSE hi * 2 + lo \div Pow2(MantBits - 1)
        rem == IF big THEN lo ELSE lo % Pow2(MantBits - 1)
        half == IF big THEN Pow2(MantBits - 1) ELSE Pow2(MantBits - 2)
        e == a[2] + b[2] + (IF big THEN MantBits ELSE MantBits - 1)
        up == IF rem > half \/ (rem = half /\ q % 2 = 1) THEN 1 ELSE 0
    IN  IF a = Zero \/ b = Zero THEN Zero
        ELSE IF q + up = w THEN <<s * Pow2(MantBits - 1), e + 1>>
        ELSE <<s * (q + up), e>>

\* The first n quotient bits of r / m (r < 2m), and the remainder left.
RECURSIVE DivBits(_, _, _, _)
DivBits(r, m, n, acc) ==
    IF n = 0 THEN <<acc, r>>
    ELSE IF r >= m THEN DivBits(2 * (r - m), m, n - 1, 2 * acc + 1)
    ELSE DivBits(2 * r, m, n - 1, 2 * acc)

\* a / b for b # 0: 26 quotient bits and a sticky bit, then rounded.
FDiv(a, b) ==
    LET qr == DivBits(Abs(a[1]), Abs(b[1]), MantBits + 2, 0)
        sticky == IF qr[2] # 0 THEN 1 ELSE 0
        s == Sgn(a[1]) * Sgn(b[1])
    IN  IF a = Zero THEN Zero
        ELSE RoundNorm(s * (2 * qr[1] + sticky), a[2] - b[2] - (MantBits + 2))

\* a < b
FLt(a, b) ==
    LET sa == Sgn(a[1])
        sb == Sgn(b[1])
    IN  IF sa # sb THEN sa < sb
        ELSE IF sa = 0 THEN FALSE
        ELSE IF sa = 1 THEN a[2] < b[2] \/ (a[2] = b[2] /\ a[1] < b[1])
        ELSE a[2] > b[2] \/ (a[2] = b[2] /\ a[1] < b[1])

FLe(a, b) == a = b \/ FLt(a, b)

\* f32::partial_cmp on finite values: -1 Less, 0 Equal, 1 Greater.
PartialCmp(a, b) == IF FLt(a, b) THEN 0 - 1 ELSE IF a = b THEN 0 ELSE 1

\* f32::max
FMax(a, b) == IF FLt(a, b) THEN b ELSE a

\* f32::floor
FFloor(a) ==
    IF a[2] >= 0 THEN a
    ELSE IF 0 - a[2] >= MantBits
    THEN (IF a[1] < 0 THEN FNeg(One) ELSE Zero)
    ELSE LET p == Pow2(0 - a[2])
             mag == Abs(a[1])
             q == mag \div p
             r == mag % p
         IN  IF a[1] > 0 THEN RoundNorm(q, 0)
             ELSE RoundNorm(0 - (q + (IF r # 0 THEN 1 ELSE 0)), 0)

\* The binary32 nearest to n / 2^k, as a literal of the source would be read.
F32(n, k) == RoundNorm(n, 0 - k)

\* A decimal literal n/d of the source, read as the nearest binary32.
F32Lit(n, d) == FDiv(F32(n, 0), F32(d, 0))

(***************************************************************************)
(* Bounds of the model                                                     *)
(***************************************************************************)

\* env.step is called at most MaxSteps times over the agent's life.
MaxSteps == 3
\* learn is repeated at most MaxRepeat times with one experience.
MaxRepeat == 12

\* E::State and E::Action: small Copy + Eq + Hash values.
States == {1, 2}
Actions == {1, 2}

\* Option<State>: None is <<>>, Some(s) is <<s>>.
None == <<>>
Some(s) == <<s>>

Range(f) == {f[i] : i \in DOMAIN f}

\* The learning rates and discount factors an agent is constructed with
\* (all in [0,1], as QTableAgent::new asserts), and the rewards drawn.
Alphas == {F32Lit(1, 2), F32Lit(8, 10)}
Gammas == {F32Lit(1, 2), One}
Rewards == {FNeg(One), F32Lit(1, 10)}

VARIABLES
    q_table,     \* QTableAgent.q_table: (state, action) -> f32, partial
    alpha,       \* QTableAgent.alpha
    gamma,       \* QTableAgent.gamma
    episode,     \* QTableAgent.episode
    pc,          \* where the running go call stands
    next_state,  \* go's local next_state: Option<State>
    actions,     \* go's local actions: Vec<Action>
    state,       \* go's local state (the loop's binding)
    action,      \* go's local action
    reward,      \* go's local reward
    choice,      \* what exploration.choose returned in the last act
    obs,         \* what an observer of the calls has counted and seen
    decay        \* a decay under construction and evaluation

vars == <<q_table, alpha, gamma, episode, pc, next_state, actions, state,
          action, reward, choice, obs, decay>>
agentVars == <<q_table, alpha, gamma, episode, pc, next_state, actions,
               state, action, reward, choice, obs>>

(***************************************************************************)
(* The environment and the exploration policy (crate::env and              *)
(* crate::exploration): any value their contracts allow.                   *)
(***************************************************************************)

\* Vec<Action> values env.actions() may return: the legal actions in some
\* order, none twice, possibly none at all.
ActionLists ==
    {l \in UNION {[1 .. n -> Actions] : n \in 0 .. Cardinality(Actions)} :
        \A i, j \in DOMAIN l : i # j => l[i] # l[j]}

EnvReset == States
EnvActions == ActionLists
EnvRandomAction == Actions

\* env.step: (Option<State>, f32); every episode ends, here at the latest
\* with the MaxSteps-th step taken since the agent was constructed.
EnvStep(stepsSoFar) ==
    {<<n, r>> : n \in (IF stepsSoFar + 1 >= MaxSteps THEN {None}
                       ELSE {None} \cup {Some(s) : s \in States}),
                r \in Rewards}

\* EpsilonGreedy::choose(episode): decided by a random draw.
Choose(ep) == {"Explore", "Exploit"}

(***************************************************************************)
(* QTableAgent                                                             *)
(***************************************************************************)

\* A plausible slip: a pair never seen counts as 1.0.
LookupDefaultOne(q, s, a) == IF <<s, a>> \in DOMAIN q THEN q[<<s, a>>] ELSE One

\* *self.q_table.get(&(state, a)).unwrap_or(&0.0)
Lookup(q, s, a) == IF <<s, a>> \in DOMAIN q THEN q[<<s, a>>] ELSE Zero

\* HashMap::insert
Insert(q, k, v) == [x \in DOMAIN q \cup {k} |-> IF x = k THEN v ELSE q[x]]

\* A plausible slip: the reduction keeps the element it holds on a tie.
RECURSIVE MaxByKeepFrom(_, _, _)
MaxByKeepFrom(vals, i, best) ==
    IF i > Len(vals) THEN best
    ELSE MaxByKeepFrom(vals, i + 1,
                       IF PartialCmp(vals[best], vals[i]) >= 0 THEN best
                       ELSE i)

MaxByKeepsFirst(vals) == MaxByKeepFrom(vals, 2, 1)

\* Iterator::max_by on a non-empty iterator, vals[i] being the value the
\* comparison reads for the i-th item: the index of the item returned.
\* core reduces with |x, y| match compare(&x, &y) { Greater => x, _ => y }.
RECURSIVE MaxByFrom(_, _, _)
MaxByFrom(vals, i, best) ==
    IF i > Len(vals) THEN best
    ELSE MaxByFrom(vals, i + 1,
                   IF PartialCmp(vals[best], vals[i]) = 1 THEN best ELSE i)

MaxBy(vals) == MaxByFrom(vals, 2, 1)

\* A plausible slip ("Maybe make this more lenient by providing a
\* default?"): no action to choose from yields the random one.
actLenient(q, ch, random, s, acts) ==
    IF ch = "Explore" \/ Len(acts) = 0 THEN [ok |-> TRUE, action |-> random]
    ELSE [ok |-> TRUE,
          action |-> acts[MaxBy([i \in 1 .. Len(acts) |->
                                    Lookup(q, s, acts[i])])]]

\* QTableAgent::act: [ok |-> TRUE, action |-> a], or the panic of expect.
act(q, ch, random, s, acts) ==
    IF ch = "Explore" THEN [ok |-> TRUE, action |-> random]
    ELSE IF Len(acts) = 0
    THEN [ok |-> FALSE,
          msg |-> "There is always at least one action available"]
    ELSE [ok |-> TRUE,
          action |-> acts[MaxBy([i \in 1 .. Len(acts) |->
                                    Lookup(q, s, acts[i])])]]

\* learn's max_next_q
MaxNextQ(q, next, next_actions) ==
    LET vals == [i \in 1 .. Len(next_actions) |->
                    IF next = None THEN Zero
                    ELSE Lookup(q, next[1], next_actions[i])]
    IN  IF Len(next_actions) = 0 THEN Zero ELSE vals[MaxBy(vals)]

\* A plausible slip: the bootstrap is not discounted by gamma.
WeightedQUndiscounted(al, ga, q_value, rew, max_next_q) ==
    LET new_q_value == FAdd(rew, max_next_q)
    IN  FAdd(FMul(FSub(One, al), q_value), FMul(al, new_q_value))

\* A plausible slip: the old value is not scaled down by 1 - alpha.
WeightedQUnscaled(al, ga, q_value, rew, max_next_q) ==
    LET new_q_value == FAdd(rew, FMul(ga, max_next_q))
    IN  FAdd(q_value, FMul(al, new_q_value))

\* learn's weighted_q_value
WeightedQ(al, ga, q_value, rew, max_next_q) ==
    LET new_q_value == FAdd(rew, FMul(ga, max_next_q))
    IN  FAdd(FMul(FSub(One, al), q_value), FMul(al, new_q_value))

\* A plausible slip: the pairs looked up for the next state are entered
\* into the table (entry().or_insert(0.0) in place of get()).
learnMaterializing(q, al, ga, s, a, next, rew, next_actions) ==
    LET q_value == Lookup(q, s, a)
        max_next_q == MaxNextQ(q, next, next_actions)
        seen == IF next = None THEN {}
                ELSE {<<next[1], next_actions[i]>> :
                          i \in 1 .. Len(next_actions)}
        w == WeightedQ(al, ga, q_value, rew, max_next_q)
    IN  [x \in DOMAIN q \cup seen \cup {<<s, a>>} |->
            IF x = <<s, a>> THEN w
            ELSE IF x \in DOMAIN q THEN q[x] ELSE Zero]

\* QTableAgent::learn: the table after the call.
learn(q, al, ga, s, a, next, rew, next_actions) ==
    LET q_value == Lookup(q, s, a)
        max_next_q == MaxNextQ(q, next, next_actions)
    IN  Insert(q, <<s, a>>, WeightedQ(al, ga, q_value, rew, max_next_q))

\* Bindings of go that are out of scope hold these.
NoState == CHOOSE s \in States : TRUE
NoAction == CHOOSE a \in Actions : TRUE
NoChoice == "none"

NoObs == [goReturns |-> 0, resets |-> 0, steps |-> 0, learns |-> 0,
          allSteps |-> 0, lastStep |-> <<>>, chooseEp |-> <<>>,
          visited |-> {}]

NoDecay == [status |-> "unused"]

\* QTableAgent::new, for alpha and gamma in [0,1]; no go call is running.
Init ==
    /\ q_table = <<>>
    /\ alpha \in Alphas
    /\ gamma \in Gammas
    /\ episode = 0
    /\ pc = "idle"
    /\ next_state = None
    /\ actions = <<>>
    /\ state = NoState
    /\ action = NoAction
    /\ reward = Zero
    /\ choice = NoChoice
    /\ obs = NoObs
    /\ decay = NoDecay

\* go is called: env.reset() and the first env.actions().
GoStart ==
    /\ pc = "idle"
    /\ obs.allSteps < MaxSteps
    /\ \E s \in EnvReset, l \in EnvActions :
          /\ next_state' = Some(s)
          /\ actions' = l
    /\ pc' = "loop"
    /\ obs' = [obs EXCEPT !.resets = @ + 1]
    /\ UNCHANGED <<q_table, alpha, gamma, episode, state, action, reward,
                   choice, decay>>

\* while let Some(state) = next_state { let action = self.act(..)
\* act panics, or returns the action.
GoAct ==
    /\ pc = "loop"
    /\ next_state # None
    /\ \E ch \in Choose(episode), random \in EnvRandomAction :
          LET res == act(q_table, ch, random, next_state[1], actions)
          IN  /\ choice' = ch
              /\ state' = next_state[1]
              /\ IF res.ok
                 THEN action' = res.action /\ pc' = "step"
                 ELSE action' = action /\ pc' = "panic"
    /\ obs' = [obs EXCEPT !.chooseEp = <<episode>>, !.lastStep = <<>>]
    /\ UNCHANGED <<q_table, alpha, gamma, episode, next_state, actions,
                   reward, decay>>

\* let (next, reward) = env.step(action); next_state = next;
\* actions = env.actions();
GoStep ==
    /\ pc = "step"
    /\ \E nr \in EnvStep(obs.allSteps), l \in EnvActions :
          /\ next_state' = nr[1]
          /\ reward' = nr[2]
          /\ actions' = l
          /\ obs' = [obs EXCEPT !.steps = @ + 1, !.allSteps = @ + 1,
                                !.lastStep = <<state, action, nr[1], nr[2]>>,
                                !.chooseEp = <<>>]
    /\ choice' = NoChoice
    /\ pc' = "learn"
    /\ UNCHANGED <<q_table, alpha, gamma, episode, state, action, decay>>

\* A plausible slip: the episode is counted with every step of the loop.
GoLearnCounting ==
    /\ pc = "learn"
    /\ q_table' = learn(q_table, alpha, gamma, state, action, next_state,
                        reward, actions)
    /\ obs' = [obs EXCEPT !.learns = @ + 1,
                          !.visited = @ \cup {<<state, action>>}]
    /\ episode' = episode + 1
    /\ state' = NoState
    /\ action' = NoAction
    /\ reward' = Zero
    /\ pc' = "loop"
    /\ UNCHANGED <<alpha, gamma, next_state, actions, choice, decay>>

\* A plausible slip: the transition that ends the episode is not learned.
GoLearnSkippingLast ==
    /\ pc = "learn"
    /\ IF next_state = None
       THEN UNCHANGED <<q_table, obs>>
       ELSE /\ q_table' = learn(q_table, alpha, gamma, state, action,
                                next_state, reward, actions)
            /\ obs' = [obs EXCEPT !.learns = @ + 1,
                                  !.visited = @ \cup {<<state, action>>}]
    /\ state' = NoState
    /\ action' = NoAction
    /\ reward' = Zero
    /\ pc' = "loop"
    /\ UNCHANGED <<alpha, gamma, episode, next_state, actions, choice, decay>>

\* self.learn(Exp { state, action, next_state, reward }, &actions);
\* and the loop body ends: state, action and reward go out of scope.
GoLearn ==
    /\ pc = "learn"
    /\ q_table' = learn(q_table, alpha, gamma, state, action, next_state,
                        reward, actions)
    /\ obs' = [obs EXCEPT !.learns = @ + 1,
                          !.visited = @ \cup {<<state, action>>}]
    /\ state' = NoState
    /\ action' = NoAction
    /\ reward' = Zero
    /\ pc' = "loop"
    /\ UNCHANGED <<alpha, gamma, episode, next_state, actions, choice, decay>>

\* the loop ends on next_state = None; self.episode += 1;
GoInc ==
    /\ pc = "loop"
    /\ next_state = None
    /\ episode' = episode + 1
    /\ pc' = "return"
    /\ UNCHANGED <<q_table, alpha, gamma, next_state, actions, state,
                   action, reward, choice, obs, decay>>

\* go returns to its caller; next_state and actions go out of scope.
GoReturn ==
    /\ pc = "return"
    /\ pc' = "idle"
    /\ next_state' = None
    /\ actions' = <<>>
    /\ obs' = [obs EXCEPT !.goReturns = @ + 1, !.steps = 0, !.learns = 0,
                          !.lastStep = <<>>]
    /\ UNCHANGED <<q_table, alpha, gamma, episode, state, action, reward,
                   choice, decay>>

Next == GoStart \/ GoAct \/ GoStep \/ GoLearn \/ GoInc \/ GoReturn

Spec == Init /\ [][Next]_vars

\* go runs to completion once called: nothing suspends it (single-threaded,
\* synchronous code), so each of its steps is taken when it is enabled.
\* The call of learn is enabled exactly at pc = "learn" and leaves that
\* position, so its weak fairness is []<>(pc # "learn"); it is written so
\* because ENABLED GoLearn would recompute the f32 arithmetic of learn
\* without sharing any intermediate value.
GoRuns == GoAct \/ GoStep \/ GoInc \/ GoReturn
LearnReturns == []<>(pc # "learn")
FairSpec == Spec /\ WF_vars(GoRuns) /\ LearnReturns

(***************************************************************************)
(* learn called again and again with one experience, on a fresh agent.     *)
(***************************************************************************)

RepeatAlphas == {Zero, F32Lit(1, 2), F32Lit(8, 10), One}
RepeatGammas == {Zero, F32Lit(1, 2), One}
RepeatRewards == {FNeg(One), F32Lit(1, 10), One}

\* The agent as constructed, and the experience and next-action list the
\* caller holds (in state, action, next_state, reward and actions).
RepeatInit ==
    /\ q_table = <<>>
    /\ alpha \in RepeatAlphas
    /\ gamma \in RepeatGammas
    /\ episode = 0
    /\ pc = "learn"
    /\ next_state \in {None} \cup {Some(s) : s \in States}
    /\ actions \in ActionLists
    /\ state \in States
    /\ action \in Actions
    /\ reward \in RepeatRewards
    /\ choice = NoChoice
    /\ obs = NoObs
    /\ decay = NoDecay

\* self.learn(Exp { state, action, next_state, reward }, &actions), again.
LearnAgain ==
    /\ pc = "learn"
    /\ obs.learns < MaxRepeat
    /\ q_table' = learn(q_table, alpha, gamma, state, action, next_state,
                        reward, actions)
    /\ obs' = [obs EXCEPT !.learns = @ + 1,
                          !.visited = @ \cup {<<state, action>>}]
    /\ UNCHANGED <<alpha, gamma, episode, pc, next_state, actions, state,
                   action, reward, choice, decay>>

RepeatNext == LearnAgain

RepeatSpec == RepeatInit /\ [][RepeatNext]_vars

(***************************************************************************)
(* Decay (src/src/decay.rs)                                                *)
(***************************************************************************)

\* A plausible slip: a rate of zero is taken with the negative rates.
validateZeroAsNegative(rate, vi, vf) ==
    IF (FLt(Zero, rate) /\ FLt(vf, vi)) \/ (FLe(rate, Zero) /\ FLt(vi, vf))
    THEN [ok |-> TRUE, msg |-> ""]
    ELSE [ok |-> FALSE, msg |-> "vi - vf must have same sign as rate"]

\* validate: Ok(()) or Err(message)
validate(rate, vi, vf) ==
    IF (FLe(Zero, rate) /\ FLt(vf, vi)) \/ (FLt(rate, Zero) /\ FLt(vi, vf))
    THEN [ok |-> TRUE, msg |-> ""]
    ELSE [ok |-> FALSE, msg |-> "vi - vf must have same sign as rate"]

\* f32::exp and f32::powf are modelled where their value is exact:
\* exp(0) = 1, x^0 = 1 and x^1 = x.
ExpInModel(x) == x = Zero
FExp(x) == CASE x = Zero -> One
PowfInModel(n) == n \in {Zero, One}
FPowf(x, n) == CASE n = Zero -> One [] n = One -> x

\* Constant::new, Exponential::new, InverseTime::new, Linear::new and
\* Step::new: the value built, or the error.
DecayNew(kind, rate, vi, vf, step) ==
    IF kind = "Constant" THEN [ok |-> TRUE, msg |-> ""]
    ELSE validate(rate, vi, vf)

ConstantEvaluate(value, t) == value
ExponentialEvaluate(rate, vi, vf, t) ==
    FAdd(vf, FMul(FSub(vi, vf), FExp(FMul(FNeg(rate), t))))
InverseTimeEvaluate(rate, vi, vf, t) ==
    FAdd(vf, FDiv(FSub(vi, vf), FAdd(One, FMul(rate, t))))
LinearEvaluate(rate, vi, vf, t) == FMax(FSub(vi, FMul(rate, t)), vf)
StepEvaluate(rate, vi, vf, step, t) ==
    FMax(FMul(vi, FPowf(rate, FFloor(FDiv(t, step)))), vf)

\* Decay::evaluate of the variant.
Evaluate(d, t) ==
    CASE d.kind = "Constant" -> ConstantEvaluate(d.vi, t)
      [] d.kind = "Exponential" -> ExponentialEvaluate(d.rate, d.vi, d.vf, t)
      [] d.kind = "InverseTime" -> InverseTimeEvaluate(d.rate, d.vi, d.vf, t)
      [] d.kind = "Linear" -> LinearEvaluate(d.rate, d.vi, d.vf, t)
      [] d.kind = "Step" -> StepEvaluate(d.rate, d.vi, d.vf, d.step, t)

\* The t at which the model has the value evaluate computes.
EvaluateInModel(d, t) ==
    CASE d.kind = "Exponential" -> ExpInModel(FMul(FNeg(d.rate), t))
      [] d.kind = "InverseTime" -> FAdd(One, FMul(d.rate, t)) # Zero
      [] d.kind = "Step" -> PowfInModel(FFloor(FDiv(t, d.step)))
      [] OTHER -> TRUE

DecayKinds == {"Exponential", "InverseTime", "Linear", "Step"}
DecayRates == {FNeg(One), Zero, F32Lit(1, 2), F32(2, 0)}
DecayValues == {Zero, F32Lit(1, 10), One}
DecaySteps == {One, F32(2, 0)}
DecayTimes == {Zero, One, F32(3, 0)}

\* The arguments of a constructor call about to be made.  Constant::new
\* takes its value alone (held in vi).
DecayArgs ==
    {[status |-> "args", kind |-> "Constant", rate |-> Zero, vi |-> v,
      vf |-> Zero, step |-> One, msg |-> "", t |-> Zero, out |-> Zero]
        : v \in DecayValues}
    \cup
    {[status |-> "args", kind |-> k, rate |-> r, vi |-> v, vf |-> w,
      step |-> st, msg |-> "", t |-> Zero, out |-> Zero]
        : k \in DecayKinds, r \in DecayRates, v \in DecayValues,
          w \in DecayValues,
          st \in DecaySteps}

DecayInit ==
    /\ q_table = <<>>
    /\ alpha \in {One}
    /\ gamma \in {One}
    /\ episode = 0
    /\ pc = "idle"
    /\ next_state = None
    /\ actions = <<>>
    /\ state = NoState
    /\ action = NoAction
    /\ reward = Zero
    /\ choice = NoChoice
    /\ obs = NoObs
    /\ decay \in {d \in DecayArgs : d.kind = "Step" \/ d.step = One}

\* X::new(rate, vi, vf[, step]): Ok(Self { .. }) or Err(message).
DecayConstruct ==
    /\ decay.status = "args"
    /\ LET res == DecayNew(decay.kind, decay.rate, decay.vi, decay.vf,
                           decay.step)
       IN  decay' = [decay EXCEPT
                        !.status = IF res.ok THEN "ok" ELSE "err",
                        !.msg = res.msg]
    /\ UNCHANGED agentVars

\* decay.evaluate(t) on a constructed decay.
DecayEvaluate ==
    /\ decay.status = "ok"
    /\ \E t \in DecayTimes :
          /\ EvaluateInModel(decay, t)
          /\ decay' = [decay EXCEPT !.status = "evaluated", !.t = t,
                                    !.out = Evaluate(decay, t)]
    /\ UNCHANGED agentVars

DecayNext == DecayConstruct \/ DecayEvaluate

DecaySpec == DecayInit /\ [][DecayNext]_vars

(***************************************************************************)
(* The claims                                                              *)
(***************************************************************************)

\* The value a claim gives a pair: the entry, 0.0 for a pair never entered.
QOrZero(q, s, a) == IF <<s, a>> \in DOMAIN q THEN q[<<s, a>>] ELSE Zero

\* act has just returned on the Exploit branch: it was called with state
\* and actions, and action is what it returned.
ExploitReturned == pc = "step" /\ choice = "Exploit"

\* The places in actions whose Q-value for state is maximal.
MaximalPlaces ==
    {i \in 1 .. Len(actions) :
        \A j \in 1 .. Len(actions) :
            FLe(QOrZero(q_table, state, actions[j]),
                QOrZero(q_table, state, actions[i]))}

MinOf(S) == CHOOSE x \in S : \A y \in S : x <= y
MaxOf(S) == CHOOSE x \in S : \A y \in S : y <= x

\* C1 as stated: on the Exploit branch, with two or more actions sharing
\* the maximal Q-value, act returns the first of them in list order.
C1_ReturnsFirstMaximal ==
    (ExploitReturned /\ Cardinality(MaximalPlaces) >= 2)
        => action = actions[MinOf(MaximalPlaces)]

\* C1 amended: on the Exploit branch, with two or more actions sharing the
\* maximal Q-value, act returns the last of them in list order.
C1_ReturnsLastMaximal ==
    (ExploitReturned /\ Cardinality(MaximalPlaces) >= 2)
        => action = actions[MaxOf(MaximalPlaces)]

\* Exploit has returned from a tie between two learned values.
C1_Witness ==
    /\ ExploitReturned
    /\ Cardinality(MaximalPlaces) >= 2
    /\ \A i \in MaximalPlaces : <<state, actions[i]>> \in DOMAIN q_table
    /\ action = actions[Len(actions)]

\* The bootstrap of C2: 0 without a next state, else the largest Q-value
\* of the next state over the next-action list (0 for an empty list).
C2_B(q, next, next_actions) ==
    LET S == {QOrZero(q, next[1], a) : a \in Range(next_actions)}
    IN  IF next = None \/ next_actions = <<>> THEN Zero
        ELSE CHOOSE v \in S : \A w \in S : FLe(w, v)

\* (1 - alpha) * Q_old + alpha * (r + gamma * B), in f32.
C2_Update(q, s, a, next, r, next_actions) ==
    FAdd(FMul(FSub(One, alpha), QOrZero(q, s, a)),
         FMul(alpha, FAdd(r, FMul(gamma, C2_B(q, next, next_actions)))))

\* C2: learn sets Q(s,a) to (1 - alpha)*Q_old(s,a) + alpha*(r + gamma*B),
\* B being 0 when next_state is None; on a table with no entry a terminal
\* experience yields alpha * r.
C2_LearnUpdate ==
    [][(pc = "learn" /\ pc' = "loop")
         => /\ <<state, action>> \in DOMAIN q_table'
            /\ q_table'[<<state, action>>] =
                   C2_Update(q_table, state, action, next_state, reward,
                             actions)
            /\ (next_state = None =>
                   q_table'[<<state, action>>] =
                      FAdd(FMul(FSub(One, alpha),
                                QOrZero(q_table, state, action)),
                           FMul(alpha, reward)))
            /\ ((q_table = <<>> /\ next_state = None) =>
                   q_table'[<<state, action>>] = FMul(alpha, reward))]_vars

\* learn has bootstrapped from a next state, other than the state left,
\* that holds a value other than 0 (obs.lastStep is the experience learned).
C2_Witness ==
    /\ pc = "loop"
    /\ obs.lastStep # <<>>
    /\ obs.learns >= 2
    /\ next_state # None
    /\ next_state[1] # obs.lastStep[1]
    /\ C2_B(q_table, next_state, actions) # Zero
    /\ q_table[<<obs.lastStep[1], obs.lastStep[2]>>]
          # FMul(alpha, obs.lastStep[4])

\* What C3 states of the arguments: a positive rate with vi > vf, or a
\* non-positive rate with vi < vf.
C3_SignsAsStated(d) ==
    \/ FLt(Zero, d.rate) /\ FLt(d.vf, d.vi)
    \/ FLe(d.rate, Zero) /\ FLt(d.vi, d.vf)

\* What validate checks: a rate >= 0 with vi > vf, or a rate < 0 with
\* vi < vf.
C3_SignsAsChecked(d) ==
    \/ FLe(Zero, d.rate) /\ FLt(d.vf, d.vi)
    \/ FLt(d.rate, Zero) /\ FLt(d.vi, d.vf)

C3_Constructed == decay.status \in {"ok", "evaluated"}

\* C3 as stated: Exponential, InverseTime, Linear and Step are constructed
\* only for a positive rate with vi > vf or a non-positive rate with
\* vi < vf; every other call returns an error with a message.
C3_ConstructionAsStated ==
    (decay.status # "args" /\ decay.kind \in DecayKinds)
        => /\ C3_Constructed => C3_SignsAsStated(decay)
           /\ ~C3_SignsAsStated(decay)
                 => decay.status = "err" /\ decay.msg # ""

\* C3 amended: they are constructed only for a rate >= 0 (zero included)
\* with vi > vf or a negative rate with vi < vf; every other call returns
\* an error with a message and constructs nothing.
C3_ConstructionAsChecked ==
    (decay.status # "args" /\ decay.kind \in DecayKinds)
        => /\ C3_Constructed => C3_SignsAsChecked(decay)
           /\ ~C3_SignsAsChecked(decay)
                 => decay.status = "err" /\ decay.msg # ""

\* A constructor has accepted a rate of zero with vi > vf.
C3_Witness ==
    /\ decay.kind \in DecayKinds
    /\ decay.rate = Zero
    /\ decay.status = "ok"
    /\ FLt(decay.vf, decay.vi)

\* C4: for every accepted (rate, vi, vf) and step, negative rates with
\* vi < vf included, evaluate(0) is exactly vi; Constant returns its value
\* at every t.
C4_EvaluateAtZero ==
    decay.status = "evaluated"
        => /\ decay.kind = "Constant" => decay.out = decay.vi
           /\ (decay.kind # "Constant" /\ decay.t = Zero)
                 => decay.out = decay.vi

\* C5 as stated: act called with an empty action list never returns an
\* action, whatever exploration.choose returned.
C5_EmptyListNeverReturns == pc = "step" => Len(actions) > 0

\* C5 amended: act called with an empty action list fails when
\* exploration.choose returns Exploit, and returns no action then; when it
\* returns Explore, act returns env.random_action() and does not fail.
C5_EmptyListFailsOnExploit ==
    /\ (pc = "step" /\ Len(actions) = 0) => choice = "Explore"
    /\ pc = "panic" => (Len(actions) = 0 /\ choice = "Exploit")
    /\ pc \in {"step", "panic"} => choice \in {"Explore", "Exploit"}

\* act has failed on an empty list.
C5_Witness == pc = "panic" /\ Len(actions) = 0 /\ choice = "Exploit"

\* C6: episode is 0 at construction and equals the number of completed go
\* calls; go increments it once, after the last learn of the episode, and
\* every exploration decision of the k-th episode is given k - 1.
C6_EpisodeCounter ==
    /\ pc \in {"idle", "loop", "step", "learn", "panic"}
         => episode = obs.goReturns
    /\ pc = "return"
         => /\ episode = obs.goReturns + 1
            /\ obs.learns = obs.steps
            /\ obs.steps >= 1
    /\ obs.chooseEp # <<>> => obs.chooseEp[1] = obs.goReturns

\* The third episode decides with index 2, two go calls having returned.
C6_Witness ==
    /\ pc = "step"
    /\ obs.goReturns = 2
    /\ obs.chooseEp = <<2>>
    /\ episode = 2

\* A value n float steps above x (below, for FDown); zero stays zero.
FUp1(x) ==
    IF x[1] > 0
    THEN (IF x[1] + 1 = Pow2(MantBits) THEN <<Pow2(MantBits - 1), x[2] + 1>>
          ELSE <<x[1] + 1, x[2]>>)
    ELSE IF x[1] < 0
    THEN (IF 0 - x[1] = Pow2(MantBits - 1)
          THEN <<1 - Pow2(MantBits), x[2] - 1>>
          ELSE <<x[1] + 1, x[2]>>)
    ELSE x

RECURSIVE FUp(_, _)
FUp(x, n) == IF n = 0 THEN x ELSE FUp(FUp1(x), n - 1)
FDown(x, n) == FNeg(FUp(FNeg(x), n))

\* x lies between a and b, or at most n float steps outside.
Between(x, a, b, n) ==
    LET lo == IF FLt(a, b) THEN a ELSE b
        hi == IF FLt(a, b) THEN b ELSE a
    IN  FLe(FDown(lo, n), x) /\ FLe(x, FUp(hi, n))

\* The target of C7: reward + gamma * max_next_q.
C7_Target(q) == FAdd(reward, FMul(gamma, C2_B(q, next_state, actions)))

C7_AlphaInside == FLt(Zero, alpha) /\ FLt(alpha, One)

\* C7 as stated: with 0 < alpha < 1, each of the repeated learn calls
\* leaves Q(s,a) between its previous value and the target.
C7_NeverPastTarget ==
    [][C7_AlphaInside
         => Between(QOrZero(q_table', state, action),
                    QOrZero(q_table, state, action), C7_Target(q_table), 0)]_vars

\* C7 amended: with 0 < alpha < 1, each of the repeated learn calls leaves
\* Q(s,a) between its previous value and the target, or at most 4 f32
\* rounding steps (units in the last place) outside that interval.
C7_NeverFarPastTarget ==
    [][C7_AlphaInside
         => Between(QOrZero(q_table', state, action),
                    QOrZero(q_table, state, action), C7_Target(q_table), 4)]_vars

\* Repeated calls have moved Q(s,a), and it has not reached the target.
C7_Witness ==
    /\ C7_AlphaInside
    /\ obs.learns >= 3
    /\ QOrZero(q_table, state, action) # Zero
    /\ QOrZero(q_table, state, action) # C7_Target(q_table)

\* C8: on the Exploit branch with a non-empty list, the action returned is
\* in the list and no action of the list has a larger Q-value for state.
C8_ReturnsMaximal ==
    (ExploitReturned /\ Len(actions) > 0)
        => /\ action \in Range(actions)
           /\ \A b \in Range(actions) :
                 FLe(QOrZero(q_table, state, b),
                     QOrZero(q_table, state, action))

\* Exploit has preferred an action over one of a smaller learned value.
C8_Witness ==
    /\ ExploitReturned
    /\ <<state, action>> \in DOMAIN q_table
    /\ \E b \in Range(actions) :
          /\ <<state, b>> \in DOMAIN q_table
          /\ FLt(QOrZero(q_table, state, b), QOrZero(q_table, state, action))

\* What an observer of one go call holds at each of its positions.
C9_Positions ==
    /\ obs.resets = obs.goReturns + (IF pc = "idle" THEN 0 ELSE 1)
    /\ pc \in {"idle", "loop", "step", "panic", "return"}
         => obs.learns = obs.steps
    /\ pc = "learn"
         => /\ obs.steps = obs.learns + 1
            /\ obs.lastStep = <<state, action, next_state, reward>>
    /\ pc = "return" => (next_state = None /\ obs.steps >= 1)

C9_Steps ==
    \* env.step follows an act of the same iteration, the step before it
    \* being learned
    /\ obs'.steps = obs.steps + 1
         => (pc = "step" /\ obs.chooseEp # <<>> /\ obs.learns = obs.steps)
    \* learn follows the step and is given that step's experience
    /\ obs'.learns = obs.learns + 1
         => /\ pc = "learn"
            /\ obs.lastStep # <<>>
            /\ q_table'[<<obs.lastStep[1], obs.lastStep[2]>>] =
                   C2_Update(q_table, obs.lastStep[1], obs.lastStep[2],
                             obs.lastStep[3], obs.lastStep[4], actions)
    \* go leaves the loop right after the learn of a step without next state
    /\ (pc' = "return" /\ pc # "return")
         => /\ pc = "loop"
            /\ next_state = None
            /\ obs.lastStep # <<>>
            /\ obs.lastStep[3] = None
            /\ obs.learns = obs.steps
    \* and goes on otherwise
    /\ (pc = "loop" /\ next_state # None) => pc' \in {"loop", "step", "panic"}
    /\ obs'.resets # obs.resets => pc = "idle"

\* C9: one go call resets the environment once, then acts, steps, asks for
\* the actions and learns that step's experience, over and over; it learns
\* the terminal transition too, returns right after it and not before a
\* step has returned no next state; and it ends when the episode does.
C9_EpisodeOrder ==
    /\ []C9_Positions
    /\ [][C9_Steps]_vars
    /\ (pc = "loop") ~> (pc \in {"idle", "panic"})

\* go is about to return from an episode of two steps, both learned.
C9_Witness == pc = "return" /\ obs.steps >= 2 /\ obs.learns = obs.steps

\* C10: the key set of the table never shrinks; learn writes the entry of
\* the visited pair and no other; act (and every other step) leaves the
\* table as it is; a pair never visited by a learn stays absent.
C10_TableFrame ==
    /\ [](DOMAIN q_table = obs.visited)
    /\ [][/\ DOMAIN q_table \subseteq DOMAIN q_table'
          /\ pc # "learn" => q_table' = q_table
          /\ pc = "learn"
               => /\ <<state, action>> \in DOMAIN q_table'
                  /\ \A k \in DOMAIN q_table' \ {<<state, action>>} :
                        k \in DOMAIN q_table /\ q_table'[k] = q_table[k]]_vars

\* Three learns have left two entries: one was overwritten while the
\* other stayed, and the pairs only looked up are absent.
C10_Witness ==
    /\ pc = "loop"
    /\ obs.allSteps = 3
    /\ obs.learns = obs.steps
    /\ Cardinality(DOMAIN q_table) = 2
====
